---------------------------- MODULE Spec2Model ----------------------------
(***************************************************************************)
(* A model of the chat scraper's message identity and deduplication        *)
(* engine (chatscraper.py): content normalisation, identifier derivation,  *)
(* the persisted dedup index with its load / persist / recovery paths, the *)
(* reply resolver and the per-element ingestion loop.                      *)
(*                                                                         *)
(* Python strings are sequences of one-character strings, so that the      *)
(* regular-expression substitutions, the 50-character prefix and the       *)
(* "_"-separated concatenation are computed, not assumed.                  *)
(***************************************************************************)
EXTENDS Integers, Sequences, FiniteSets, TLC

(***************************************************************************)
(* Characters and character classes of the regular expressions             *)
(***************************************************************************)
Upper ==
    {"A","B","C","D","E","F","G","H","I","J","K","L","M",
     "N","O","P","Q","R","S","T","U","V","W","X","Y","Z"}

Digit == {"0","1","2","3","4","5","6","7","8","9"}

UpperDigit == Upper \cup Digit

\* \s of Python's re on str
Space == {" ", "\n", "\t", "\r", "\f"}

NL == "\n"

\* the replacement r'\1\n[PRICE]%' after the group and the newline
PRICE == <<"[","P","R","I","C","E","]","%">>

\* i < len(s) and s[i] == c, with 1-based i
At(s, i, c) == i >= 1 /\ i <= Len(s) /\ s[i] = c

\* c in s
Has(s, c) == \E i \in 1..Len(s) : s[i] = c

RECURSIVE RunEnd(_, _, _)
\* the index just past the longest run of characters of cls that starts at i
RunEnd(s, i, cls) ==
    IF i <= Len(s) /\ s[i] \in cls THEN RunEnd(s, i + 1, cls) ELSE i

RECURSIVE RunEndNot(_, _, _)
\* the index just past the longest run of characters other than c from i
RunEndNot(s, i, c) ==
    IF i <= Len(s) /\ s[i] # c THEN RunEndNot(s, i + 1, c) ELSE i

\* the '%' that ends a price, at d: the index just past it, or 0
PercentEnd(s, d) == IF At(s, d, "%") THEN d + 1 ELSE 0

\* \.?\d*% from b on, where the digits that started at a have ended
FractionEnd(s, a, b) ==
    IF b > a
    THEN PercentEnd(s, RunEnd(s, IF At(s, b, ".") THEN b + 1 ELSE b, Digit))
    ELSE 0

\* \d+\.?\d*% from a on
DigitsEnd(s, a) == FractionEnd(s, a, RunEnd(s, a, Digit))

\* [+-]?\d+\.?\d*% matched at j: the index just past the '%', or 0.
\* Greedy matching with backtracking has one outcome here: every shorter
\* run is followed by a character of the run's own class.
PriceEnd(s, j) ==
    DigitsEnd(s, IF At(s, j, "+") \/ At(s, j, "-") THEN j + 1 ELSE j)

\* the newline at e that ends a group started at i, or 0
NewlineEnd(s, i, e) == IF e > i /\ At(s, e, NL) THEN e ELSE 0

\* pattern: ([A-Z]+)\n  -- the index of the newline that ends group 1, or 0
LabelEndTicker(s, i) == NewlineEnd(s, i, RunEnd(s, i, Upper))

\* \([A-Z]\)\n at e2
LetterParensEnd(s, e2) ==
    IF /\ At(s, e2, "(")
       /\ e2 + 1 <= Len(s) /\ s[e2 + 1] \in Upper
       /\ At(s, e2 + 2, ")")
       /\ At(s, e2 + 3, NL)
    THEN e2 + 3 ELSE 0

\* \([^)]+\)\n at e2, where the run of non-')' characters ends at e3
ClosedParensEnd(s, e2, e3) ==
    IF e3 > e2 + 1 /\ At(s, e3, ")") /\ At(s, e3 + 1, NL)
    THEN e3 + 1 ELSE 0

AnyParensEnd(s, e2) ==
    IF At(s, e2, "(")
    THEN ClosedParensEnd(s, e2, RunEndNot(s, e2 + 1, ")"))
    ELSE 0

\* \s* from e1 on, where the run of cls that started at i has ended
QualifierEnd(s, i, e1, any) ==
    IF e1 > i
    THEN IF any
         THEN AnyParensEnd(s, RunEnd(s, e1, Space))
         ELSE LetterParensEnd(s, RunEnd(s, e1, Space))
    ELSE 0

\* pattern_with_delay / pattern_futures: (cls+\s*\([A-Z]\))\n
LabelEndQualified(s, i, cls) ==
    QualifierEnd(s, i, RunEnd(s, i, cls), FALSE)

\* pattern_any_parens: ([A-Z0-9]+\s*\([^)]+\))\n
LabelEndAnyParens(s, i) ==
    QualifierEnd(s, i, RunEnd(s, i, UpperDigit), TRUE)

\* the four patterns of _remove_ticker_content, in the order they are applied
pattern == 1
pattern_with_delay == 2
pattern_futures == 3
pattern_any_parens == 4

LabelEnd(p, s, i) ==
    CASE p = pattern            -> LabelEndTicker(s, i)
      [] p = pattern_with_delay -> LabelEndQualified(s, i, Upper)
      [] p = pattern_futures    -> LabelEndQualified(s, i, UpperDigit)
      [] OTHER                  -> LabelEndAnyParens(s, i)

\* the price after the newline at nl
PriceAfter(s, nl) == IF nl = 0 THEN 0 ELSE PriceEnd(s, nl + 1)

\* the end (exclusive) of a match of pattern p that starts at i, or 0
MatchEnd(p, s, i) == PriceAfter(s, LabelEnd(p, s, i))

RECURSIVE ReSub(_, _, _)
\* a substitution that drops the group (not the program's)
ReSubAtNoGroup(p, s, i, e) ==
    IF e > 0
    THEN <<NL>> \o PRICE \o ReSub(p, s, e)
    ELSE <<s[i]>> \o ReSub(p, s, i + 1)

\* a substitution that keeps the price but for its first character (not the
\* program's)
ReSubAtShorten(p, s, i, e) ==
    IF e > 0
    THEN SubSeq(s, i, LabelEnd(p, s, i))
             \o SubSeq(s, LabelEnd(p, s, i) + 2, e - 1)
             \o ReSub(p, s, e)
    ELSE <<s[i]>> \o ReSub(p, s, i + 1)

\* one step of re.sub at index i, where e is the end of the match at i or 0
ReSubAt(p, s, i, e) ==
    IF e > 0
    THEN SubSeq(s, i, LabelEnd(p, s, i)) \o PRICE \o ReSub(p, s, e)
    ELSE <<s[i]>> \o ReSub(p, s, i + 1)

\* re.sub(p, r'\1\n[PRICE]%', s) from index i on: leftmost matches, not
\* overlapping, everything else copied
ReSub(p, s, i) ==
    IF i > Len(s) THEN <<>> ELSE ReSubAt(p, s, i, MatchEnd(p, s, i))

\* a normaliser that knows only the ticker and the delayed-ticker patterns
RemoveTickerTwoPatterns(content) ==
    IF Has(content, NL) /\ Has(content, "%")
    THEN ReSub(pattern_with_delay, ReSub(pattern, content, 1), 1)
    ELSE content

_remove_ticker_content(content) ==
    IF Has(content, NL) /\ Has(content, "%")
    THEN LET c1 == ReSub(pattern, content, 1)
             c2 == ReSub(pattern_with_delay, c1, 1)
             c3 == ReSub(pattern_futures, c2, 1)
         IN  ReSub(pattern_any_parens, c3, 1)
    ELSE content

\* the prefix length of the live identity generator
IdPrefixLen == 50

\* id_content[:50] if len(id_content) > 50 else id_content
ContentHash(id_content) ==
    IF Len(id_content) > IdPrefixLen
    THEN SubSeq(id_content, 1, IdPrefixLen)
    ELSE id_content

\* an id that leaves the author out
FormatIdNoUser(timestamp, username, content_hash) ==
    timestamp \o <<"_">> \o content_hash

\* f"{timestamp}_{username}_{content_hash}"
FormatId(timestamp, username, content_hash) ==
    timestamp \o <<"_">> \o username \o <<"_">> \o content_hash

_generate_message_id(timestamp, username, content) ==
    FormatId(timestamp, username, ContentHash(_remove_ticker_content(content)))

(***************************************************************************)
(* Python string helpers used by the reply resolver                        *)
(***************************************************************************)
UpperSeq ==
    <<"A","B","C","D","E","F","G","H","I","J","K","L","M",
      "N","O","P","Q","R","S","T","U","V","W","X","Y","Z">>

LowerSeq ==
    <<"a","b","c","d","e","f","g","h","i","j","k","l","m",
      "n","o","p","q","r","s","t","u","v","w","x","y","z">>

LowerChar(c) ==
    IF c \in Upper
    THEN LowerSeq[CHOOSE k \in 1..Len(UpperSeq) : UpperSeq[k] = c]
    ELSE c

\* str.lower()
Lower(s) == [i \in 1..Len(s) |-> LowerChar(s[i])]

RECURSIVE RunStart(_, _)
\* the index just before the trailing run of whitespace that ends at i
RunStart(s, i) ==
    IF i >= 1 /\ s[i] \in Space THEN RunStart(s, i - 1) ELSE i

\* str.strip()
Strip(s) == SubSeq(s, RunEnd(s, 1, Space), RunStart(s, Len(s)))

\* s.startswith(p)
StartsWith(s, p) == Len(p) <= Len(s) /\ SubSeq(s, 1, Len(p)) = p

\* p in s, for strings
Contains(p, s) ==
    \E i \in 1..(Len(s) + 1) :
        i + Len(p) - 1 <= Len(s) /\ SubSeq(s, i, i + Len(p) - 1) = p

(***************************************************************************)
(* Values: None, dicts, the elements a persisted log may hold, files       *)
(***************************************************************************)
\* Python's None (JSON null): no string of characters equals it
None == <<"None">>

\* d.get(key, default) on a dict
Get(d, key, default) == IF key \in DOMAIN d THEN d[key] ELSE default

\* truthiness of a value that is a string or None
Truthy(v) == v # <<>> /\ v # None

\* the dict built at lines 300-312
MessageDict(raw, msg_id, reply_msg_id, date) ==
    IF raw.isReply
    THEN [kind |-> "dict", date |-> date, timestamp |-> raw.timestamp,
          username |-> raw.username, content |-> raw.content,
          isReply |-> TRUE, msg_id |-> msg_id,
          replied_to |-> raw.replied_to, reply_msg_id |-> reply_msg_id]
    ELSE [kind |-> "dict", date |-> date, timestamp |-> raw.timestamp,
          username |-> raw.username, content |-> raw.content,
          isReply |-> FALSE, msg_id |-> msg_id]

\* a file that does not exist
Absent == [kind |-> "absent", items |-> <<>>]

\* a file whose text is no JSON document: garbage, an empty file left by
\* open(path, 'w'), or a dump that stopped part-way
NotJson == [kind |-> "text", items |-> <<>>]

\* a file that exists and that this process may not open
Unreadable == [kind |-> "unreadable", items |-> <<>>]

\* os.path.exists(path)
Exists(f) == f.kind # "absent"

\* an in-memory list, as message_data starts
EmptyList == [kind |-> "list", items |-> <<>>]

\* json.dump(data, f, indent=2): the file holds the document of data
JsonDump(data) == [kind |-> data.kind, items |-> data.items]

\* json.load(f) of a file that holds a document
JsonLoad(f) == [kind |-> f.kind, items |-> f.items]

\* json.load raises (or open does)
LoadRaises(f) == f.kind \in {"text", "unreadable"}

(***************************************************************************)
(* Paths of the log directory                                              *)
(***************************************************************************)
\* bound of the clock (time stamps of file names and the date field)
MaxNow == 1

Stamps == 0..MaxNow

master_log == [name |-> "MASTER_LOG.json", suffix |-> "", stamp |-> 0]

temp_log_in_place == master_log

\* f"{self.master_log}.temp"
temp_log == [name |-> "MASTER_LOG.json", suffix |-> ".temp", stamp |-> 0]

\* session_{stamp}.json
SessionPath(t) == [name |-> "session", suffix |-> ".json", stamp |-> t]

\* f"{self.master_log}.backup_{stamp}"
BackupPath(t) == [name |-> "MASTER_LOG.json", suffix |-> ".backup", stamp |-> t]

Paths ==
    {master_log, temp_log}
        \cup {SessionPath(t) : t \in Stamps}
        \cup {BackupPath(t) : t \in Stamps}

(***************************************************************************)
(* The store in memory: known_messages, message_data and the per-author    *)
(* lookup, and _load_master_log                                            *)
(***************************************************************************)
\* an empty dict
EmptyLookup == [u \in {} |-> <<>>]

LookupPrepend(lookup, username, msg) ==
    IF username \in DOMAIN lookup
    THEN [lookup EXCEPT ![username] = <<msg>> \o @]
    ELSE (username :> <<msg>>) @@ lookup

\* if username not in lookup: lookup[username] = []; lookup[username].append(msg)
LookupAppend(lookup, username, msg) ==
    IF username \in DOMAIN lookup
    THEN [lookup EXCEPT ![username] = Append(@, msg)]
    ELSE (username :> <<msg>>) @@ lookup

\* "msg_id" in msg, for the elements that do not raise on it: a dict has
\* the key, a string has the substring
HasMsgId(msg) ==
    IF msg.kind = "dict" THEN "msg_id" \in DOMAIN msg ELSE msg.has_id

RECURSIVE IndexLog(_, _, _, _)
\* the loop of lines 75-84 from element i on: what it has added to
\* known_messages and username_message_lookup when it ends or raises.
\*   a number: "msg_id" in msg raises TypeError
\*   a string that holds "msg_id": msg["msg_id"] raises TypeError
IndexLog(items, i, known, lookup) ==
    IF i > Len(items)
    THEN [raised |-> FALSE, known |-> known, lookup |-> lookup]
    ELSE LET msg == items[i]
         IN  IF msg.kind = "num"
             THEN [raised |-> TRUE, known |-> known, lookup |-> lookup]
             ELSE IF ~HasMsgId(msg)
             THEN IndexLog(items, i + 1, known, lookup)
             ELSE IF msg.kind = "str"
             THEN [raised |-> TRUE, known |-> known, lookup |-> lookup]
             ELSE LET username == Get(msg, "username", <<>>)
                  IN  IndexLog(items, i + 1, known \cup {msg.msg_id},
                               IF Truthy(username)
                               THEN LookupAppend(lookup, username, msg)
                               ELSE lookup)

\* the try block of lines 69-88 on the file f: iterating a JSON object
\* iterates its keys
LoadTry(f) ==
    IF LoadRaises(f)
    THEN [raised |-> TRUE, known |-> {}, lookup |-> EmptyLookup]
    ELSE IndexLog(f.items, 1, {}, EmptyLookup)

\* the except block, lines 89-97: shutil.copy2 of the master log to a
\* stamped backup
BackupSkipped(files, t) == files

BackupOnError(files, t) ==
    [files EXCEPT ![BackupPath(t)] = files[master_log]]

(***************************************************************************)
(* _find_reply_msg_id                                                      *)
(***************************************************************************)
\* the id re-generated from a stored message, lines 213-216 and 222-225
RegeneratedId(msg) ==
    _generate_message_id(Get(msg, "timestamp", <<>>),
                         Get(msg, "username", <<>>),
                         Get(msg, "content", <<>>))

RECURSIVE ScanReply(_, _, _)
\* for msg in reversed(user_messages), from index k down: the first message
\* whose stripped, lower-cased content holds the preview.  A content that is
\* None raises AttributeError on .strip()
ScanReply(user_messages, k, preview_clean) ==
    IF k < 1
    THEN [raised |-> FALSE, found |-> FALSE, value |-> None]
    ELSE LET msg == user_messages[k]
             raw_content == Get(msg, "content", <<>>)
         IN  IF raw_content = None
             THEN [raised |-> TRUE, found |-> FALSE, value |-> None]
             ELSE LET content == Lower(Strip(raw_content))
                  IN  IF \/ Contains(preview_clean, content)
                         \/ StartsWith(content, preview_clean)
                      THEN [raised |-> FALSE, found |-> TRUE,
                            value |-> RegeneratedId(msg)]
                      ELSE ScanReply(user_messages, k - 1, preview_clean)

\* lines 220-225: the most recent message of the author; '\n' in None raises
LatestReply(user_messages) ==
    IF user_messages = <<>>
    THEN [raised |-> FALSE, value |-> None]
    ELSE LET latest_msg == user_messages[Len(user_messages)]
         IN  IF Get(latest_msg, "content", <<>>) = None
             THEN [raised |-> TRUE, value |-> None]
             ELSE [raised |-> FALSE, value |-> RegeneratedId(latest_msg)]

\* lines 205-225 once the preview loop has ended with scan
ReplyAfterScan(user_messages, scan) ==
    IF scan.raised
    THEN [raised |-> TRUE, value |-> None]
    ELSE IF scan.found
    THEN [raised |-> FALSE, value |-> scan.value]
    ELSE LatestReply(user_messages)

\* lines 202-225 on the messages of the replied-to author
ReplyAmong(user_messages, preview_text) ==
    ReplyAfterScan(user_messages,
                   IF Truthy(preview_text)
                   THEN ScanReply(user_messages, Len(user_messages),
                                  Lower(Strip(preview_text)))
                   ELSE [raised |-> FALSE, found |-> FALSE, value |-> None])

_find_reply_msg_id(lookup, replied_to_username, preview_text) ==
    IF ~Truthy(replied_to_username)
    THEN [raised |-> FALSE, value |-> None]
    ELSE IF replied_to_username \notin DOMAIN lookup
    THEN [raised |-> FALSE, value |-> None]
    ELSE ReplyAmong(lookup[replied_to_username], preview_text)

(***************************************************************************)
(* What the scraping collaborator delivers: the fields extracted from one  *)
(* message element                                                         *)
(***************************************************************************)
UnknownTime == <<"U","n","k","n","o","w","n"," ","t","i","m","e">>
UnknownUser == <<"U","n","k","n","o","w","n"," ","u","s","e","r">>

\* the "continue" tests of lines 268, 273 and 278
Dropped(raw) ==
    \/ raw.timestamp = UnknownTime
    \/ raw.username = UnknownUser \/ Len(raw.username) < 2
    \/ raw.content = <<>> \/ Len(raw.content) < 2

Raw(timestamp, username, content) ==
    [timestamp |-> timestamp, username |-> username, content |-> content,
     isReply |-> FALSE, replied_to |-> <<>>, preview |-> <<>>]

RawReply(timestamp, username, content, replied_to, preview) ==
    [timestamp |-> timestamp, username |-> username, content |-> content,
     isReply |-> TRUE, replied_to |-> replied_to, preview |-> preview]

T1 == <<"1",":","0">>
T2 == <<"2",":","0">>
al == <<"a","l">>
bo == <<"b","o">>
SPY1 == <<"S","P","Y","\n","+","1","%">>
SPY2 == <<"S","P","Y","\n","+","2","%">>
spot == <<"s","p","o","t">>

\* a ticker message; a reply to its author with the preview "sp"; a later
\* ticker message of that author, itself a reply to their own messages
\* without a preview; an element without a parseable time stamp
RawTick1 == Raw(T1, al, SPY1)
RawAnswer == RawReply(T2, bo, <<"o","k">>, al, <<"s","p">>)
RawSelf == RawReply(T2, al, SPY2, al, <<>>)
RawNoTime == Raw(UnknownTime, al, spot)

\* the elements a poll may find, in any order and any number of times
RawMessages == {RawTick1, RawAnswer, RawSelf, RawNoTime}

(***************************************************************************)
(* The master logs a process may find when it starts                       *)
(***************************************************************************)
RecTick ==
    MessageDict(RawTick1, _generate_message_id(T1, al, SPY1), None, 0)

ListFile(items) == [kind |-> "list", items |-> items]

\* a JSON number and a JSON string as elements of the list; the keys of a
\* JSON object are strings too
NumElement == [kind |-> "num", has_id |-> FALSE]
StrElement == [kind |-> "str", has_id |-> FALSE]

\* a log of one record, as an earlier run wrote it
LogOne == ListFile(<<RecTick>>)
\* the same record twice
LogDup == ListFile(<<RecTick, RecTick>>)
\* a record followed by a number
LogPartial == ListFile(<<RecTick, NumElement>>)
\* a list of strings
LogStrings == ListFile(<<StrElement>>)
\* a JSON object, {"messages": [...]}
LogObject == [kind |-> "object", items |-> <<StrElement>>]
\* a record without "msg_id"
LogNoId ==
    ListFile(<<[kind |-> "dict", timestamp |-> T2, username |-> al,
                content |-> spot]>>)
\* a record whose content is null
LogNullContent ==
    ListFile(<<[kind |-> "dict", timestamp |-> T2, username |-> al,
                content |-> None, msg_id |-> FormatId(T2, al, <<>>)]>>)

\* a record written before ticker prices were left out of the id: its
\* msg_id holds the content as displayed
LogOldScheme ==
    ListFile(<<MessageDict(Raw(T2, al, SPY2), FormatId(T2, al, SPY2), None,
                           0)>>)

InitialLogs ==
    {Absent, NotJson, Unreadable, LogOne, LogDup, LogPartial, LogStrings,
     LogObject, LogNoId, LogNullContent, LogOldScheme}

(***************************************************************************)
(* State                                                                   *)
(***************************************************************************)
VARIABLES
    fs,                      \* the log directory: path -> file
    now,                     \* the clock, datetime.now()
    pc,                      \* where the process is; "down": no process
    known_messages,          \* self.known_messages
    message_data,            \* self.message_data
    username_message_lookup, \* self.username_message_lookup
    session_log,             \* self.session_log
    new_messages,            \* new_messages of get_chat_messages, its result
    poll_result,             \* how the last get_chat_messages call ended
    save_error,              \* "Error saving to master log" printed this call
    last_save,               \* how the last _save_to_master_log of the call ended
    skipped,                 \* the id line 283 has just found known, or None
    load_outcome,            \* which branch _load_master_log took
    loaded_file,             \* the master log as _load_master_log found it
    replaced,                \* this process has replaced the master log
    persist_called,          \* _save_to_master_log has been called
    pre_master,              \* the master log when it was last called
    persist_data,            \* message_data when it was last called
    crashes,                 \* interruptions so far
    faults,                  \* I/O errors so far
    in_a, in_b,              \* identity generator: two observed messages
    out_a, out_b,            \* their normalised content and id
    id_known,                \* the ids seen after the first
    id_pc,                   \* "first", "second", "done"; "off" otherwise
    off_pc,                  \* remove_duplicates: where it is; "off" otherwise
    data,                    \* data, line 70
    scanned,                 \* how many elements of data the loop has taken
    seen_norm_ids,           \* seen_norm_ids
    unique_messages,         \* unique_messages
    duplicates,              \* duplicates
    report,                  \* original_count, new_count, duplicates_removed
                             \* as lines 109-111 print them, or <<>>
    LOG_DIRECTORY,           \* main: LOG_DIRECTORY of config.py
    log_directory,           \* main: self.log_directory of scraper
    disk,                    \* main: directory -> its MASTER_LOG.json
    consecutive_errors,      \* main: consecutive_errors
    streak,                  \* main: the polls that have raised in a row
    restarted,               \* main: line 592 has replaced the scraper
    restart_streak,          \* main: streak when it did
    persisted_before         \* main: the ids in the log of the replaced
                             \* scraper when it did

store == <<known_messages, message_data, username_message_lookup>>
process ==
    <<pc, session_log, new_messages, poll_result, save_error, last_save,
      skipped>>
history ==
    <<load_outcome, loaded_file, replaced, persist_called, pre_master,
      persist_data>>
budget == <<crashes, faults>>
idgen == <<in_a, in_b, out_a, out_b, id_known, id_pc>>
offline ==
    <<off_pc, data, scanned, seen_norm_ids, unique_messages, duplicates,
      report>>

mainloop ==
    <<LOG_DIRECTORY, log_directory, disk, consecutive_errors, streak,
      restarted, restart_streak, persisted_before>>

vars ==
    <<fs, now, store, process, history, budget, idgen, offline, mainloop>>

\* bounds on the environment's interruptions and I/O errors
MaxCrashes == 1
MaxFaults == 1

\* datetime.now().strftime('%Y%m%d'): the clock's stamps lie within one day
TicksPerDay == MaxNow + 1
Today == now \div TicksPerDay

NoInput == Raw(<<>>, <<>>, <<>>)
NoOutput == [norm |-> <<>>, id |-> None]

\* the log directory of the constructor's default, line 16, and another
DefaultDirectory == "chat_logs"
Directories == {DefaultDirectory, "logs"}

MainLoopOff ==
    /\ LOG_DIRECTORY = DefaultDirectory
    /\ log_directory = DefaultDirectory
    /\ disk = [d \in Directories |-> Absent]
    /\ consecutive_errors = 0
    /\ streak = 0
    /\ restarted = FALSE
    /\ restart_streak = 0
    /\ persisted_before = {}

OfflineOff ==
    /\ off_pc = "off"
    /\ data = <<>>
    /\ scanned = 0
    /\ seen_norm_ids = {}
    /\ unique_messages = <<>>
    /\ duplicates = <<>>
    /\ report = <<>>

IdGenOff ==
    /\ in_a = NoInput /\ in_b = NoInput
    /\ out_a = NoOutput /\ out_b = NoOutput
    /\ id_known = {}
    /\ id_pc = "off"

\* no process is running: the disk holds some master log and nothing else
Init ==
    /\ \E log \in InitialLogs :
          fs = [p \in Paths |-> IF p = master_log THEN log ELSE Absent]
    /\ now = 0
    /\ pc = "down"
    /\ known_messages = {}
    /\ message_data = EmptyList
    /\ username_message_lookup = EmptyLookup
    /\ session_log = SessionPath(0)
    /\ new_messages = <<>>
    /\ poll_result = "none"
    /\ save_error = FALSE
    /\ last_save = "none"
    /\ skipped = None
    /\ load_outcome = "none"
    /\ loaded_file = Absent
    /\ replaced = FALSE
    /\ persist_called = FALSE
    /\ pre_master = Absent
    /\ persist_data = EmptyList
    /\ crashes = 0
    /\ faults = 0
    /\ IdGenOff
    /\ OfflineOff
    /\ MainLoopOff

(***************************************************************************)
(* ChatScraper.__init__ with _load_master_log                              *)
(***************************************************************************)
\* lines 30-51 and 66-100.  A master log that cannot be opened cannot be
\* copied either: shutil.copy2 raises inside the except block and the
\* constructor raises.
Start ==
    /\ pc = "down"
    /\ LET f == fs[master_log]
           try == LoadTry(f)
       IN  /\ loaded_file' = f
           /\ IF ~Exists(f)
              THEN /\ known_messages' = {}
                   /\ username_message_lookup' = EmptyLookup
                   /\ message_data' = EmptyList
                   /\ fs' = fs
                   /\ pc' = "idle"
                   /\ load_outcome' = "absent"
              ELSE IF ~try.raised
              THEN /\ known_messages' = try.known
                   /\ username_message_lookup' = try.lookup
                   /\ message_data' = JsonLoad(f)
                   /\ fs' = fs
                   /\ pc' = "idle"
                   /\ load_outcome' = "ok"
              ELSE IF f.kind = "unreadable"
              THEN /\ known_messages' = {}
                   /\ username_message_lookup' = EmptyLookup
                   /\ message_data' = EmptyList
                   /\ fs' = fs
                   /\ pc' = "down"
                   /\ load_outcome' = "aborted"
              ELSE /\ known_messages' = try.known
                   /\ username_message_lookup' = try.lookup
                   /\ message_data' = EmptyList
                   /\ fs' = BackupOnError(fs, now)
                   /\ pc' = "idle"
                   /\ load_outcome' = "failed"
    /\ session_log' = SessionPath(now)
    /\ new_messages' = <<>>
    /\ poll_result' = "none"
    /\ save_error' = FALSE
    /\ last_save' = "none"
    /\ skipped' = None
    /\ replaced' = FALSE
    /\ UNCHANGED <<now, persist_called, pre_master, persist_data, budget, idgen,
                   offline, mainloop>>

(***************************************************************************)
(* get_chat_messages                                                       *)
(***************************************************************************)
\* lines 231-255: the chat container is found and the loop starts
BeginPoll ==
    /\ pc = "idle"
    /\ pc' = "loop"
    /\ new_messages' = <<>>
    /\ poll_result' = "running"
    /\ save_error' = FALSE
    /\ skipped' = None
    /\ last_save' = "none"
    /\ UNCHANGED <<fs, now, store, session_log, history, budget, idgen,
                   offline, mainloop>>

\* lines 234-238 and 339-344: the wait for the chat container raises, and
\* get_chat_messages re-raises
PollRaises ==
    /\ pc = "idle"
    /\ new_messages' = <<>>
    /\ poll_result' = "raised"
    /\ save_error' = FALSE
    /\ skipped' = None
    /\ last_save' = "none"
    /\ UNCHANGED <<fs, now, store, pc, session_log, history, budget, idgen,
                   offline, mainloop>>

PrependRecord(log, message) ==
    [log EXCEPT !.items = <<message>> \o @]

\* self.message_data.append(message_data), line 315
AppendRecord(log, message) ==
    [log EXCEPT !.items = Append(@, message)]

\* a skip that persisted the log again (not the program's)
SkipKnownPersisting(msg_id) ==
    /\ skipped' = msg_id
    /\ pc' = "save_session_open"
    /\ last_save' = "running"
    /\ persist_called' = TRUE
    /\ pre_master' = fs[master_log]
    /\ persist_data' = message_data
    /\ UNCHANGED <<store, new_messages, fs>>

\* lines 283-284: if msg_id in self.known_messages: continue
SkipKnown(msg_id) ==
    /\ skipped' = msg_id
    /\ UNCHANGED <<store, pc, new_messages, fs, persist_called, pre_master,
                   persist_data, last_save>>

\* lines 258-334 for one element, up to the call of _save_to_master_log.
\* An exception in the body is caught at line 330 and the loop continues:
\*   _find_reply_msg_id raises after known_messages.add;
\*   message_data.append raises when message_data is no list, after
\*   new_messages.append.
ElementBody(raw, msg_id, reply) ==
    /\ pc = "loop"
    /\ LET message == MessageDict(raw, msg_id, reply.value, Today)
       IN  IF Dropped(raw)
           THEN /\ skipped' = None
                /\ UNCHANGED <<store, pc, new_messages, fs, persist_called,
                               pre_master, persist_data, last_save>>
           ELSE IF msg_id \in known_messages
           THEN SkipKnown(msg_id)
           ELSE IF reply.raised
           THEN /\ known_messages' = known_messages \cup {msg_id}
                /\ skipped' = None
                /\ UNCHANGED <<message_data, username_message_lookup, pc,
                               new_messages, fs, persist_called, pre_master,
                               persist_data, last_save>>
           ELSE IF message_data.kind # "list"
           THEN /\ known_messages' = known_messages \cup {msg_id}
                /\ new_messages' = Append(new_messages, message)
                /\ skipped' = None
                /\ UNCHANGED <<message_data, username_message_lookup, pc, fs,
                               persist_called, pre_master, persist_data,
                               last_save>>
           ELSE /\ known_messages' = known_messages \cup {msg_id}
                /\ new_messages' = Append(new_messages, message)
                /\ skipped' = None
                /\ last_save' = "running"
                /\ message_data' = AppendRecord(message_data, message)
                /\ username_message_lookup' =
                       LookupAppend(username_message_lookup, raw.username,
                                    message)
                /\ pc' = "save_session_open"
                /\ persist_called' = TRUE
                /\ pre_master' = fs[master_log]
                /\ persist_data' = message_data'
                /\ fs' = fs
    /\ UNCHANGED <<now, session_log, poll_result, save_error, load_outcome,
                   loaded_file, replaced, budget, idgen,
                   offline, mainloop>>

\* lines 257-334 for one element: the id of line 282 and the reply id of
\* lines 294-298
Element(raw) ==
    ElementBody(raw,
                _generate_message_id(raw.timestamp, raw.username, raw.content),
                IF raw.isReply
                THEN _find_reply_msg_id(username_message_lookup,
                                        raw.replied_to, raw.preview)
                ELSE [raised |-> FALSE, value |-> None])

\* lines 336-337: return new_messages
EndPoll ==
    /\ pc = "loop"
    /\ pc' = "idle"
    /\ poll_result' = "ok"
    /\ skipped' = None
    /\ UNCHANGED <<fs, now, store, session_log, new_messages, save_error,
                   last_save, history, budget, idgen,
                   offline, mainloop>>

(***************************************************************************)
(* _save_to_master_log, one file operation per step                        *)
(***************************************************************************)
\* one file operation of the try block: it succeeds and the method goes on,
\* or it raises, line 503 prints the error and the method returns
SaveStepRaising(from, to, files_done, files_raised, did_replace) ==
    /\ pc = from
    /\ \/ /\ fs' = files_done
          /\ pc' = to
          /\ replaced' = (replaced \/ did_replace)
          /\ last_save' = IF to = "loop" THEN "ok" ELSE last_save
          /\ UNCHANGED <<save_error, faults, poll_result>>
       \/ /\ faults < MaxFaults
          /\ fs' = files_raised
          /\ pc' = "idle"
          /\ poll_result' = "raised"
          /\ save_error' = TRUE
          /\ last_save' = "failed"
          /\ faults' = faults + 1
          /\ UNCHANGED replaced
    /\ UNCHANGED <<now, store, session_log, new_messages, skipped,
                   load_outcome, loaded_file, persist_called, pre_master,
                   persist_data, crashes, idgen,
                   offline, mainloop>>

SaveStep(from, to, files_done, files_raised, did_replace) ==
    /\ pc = from
    /\ \/ /\ fs' = files_done
          /\ pc' = to
          /\ replaced' = (replaced \/ did_replace)
          /\ last_save' = IF to = "loop" THEN "ok" ELSE last_save
          /\ UNCHANGED <<save_error, faults>>
       \/ /\ faults < MaxFaults
          /\ fs' = files_raised
          /\ pc' = "loop"
          /\ save_error' = TRUE
          /\ last_save' = "failed"
          /\ faults' = faults + 1
          /\ UNCHANGED replaced
    /\ UNCHANGED <<now, store, session_log, new_messages, poll_result, skipped,
                   load_outcome, loaded_file, persist_called, pre_master,
                   persist_data, crashes, idgen,
                   offline, mainloop>>

\* line 485: open(self.session_log, 'w')
SaveSessionOpen ==
    SaveStep("save_session_open", "save_session_dump",
             [fs EXCEPT ![session_log] = NotJson], fs, FALSE)

\* line 486: json.dump(self.message_data, f, indent=2)
SaveSessionDump ==
    SaveStep("save_session_dump", "save_copy",
             [fs EXCEPT ![session_log] = JsonDump(message_data)],
             [fs EXCEPT ![session_log] = NotJson], FALSE)

\* lines 492-493: shutil.copy2(self.master_log, temp_log) if the log exists
SaveCopy ==
    IF Exists(fs[master_log])
    THEN SaveStep("save_copy", "save_temp_open",
                  [fs EXCEPT ![temp_log] = fs[master_log]], fs, FALSE)
    ELSE /\ pc = "save_copy"
         /\ pc' = "save_temp_open"
         /\ UNCHANGED <<fs, now, store, session_log, new_messages,
                        poll_result, save_error, last_save, skipped, history,
                        budget, idgen,
                   offline, mainloop>>

\* line 496: open(temp_log, 'w')
SaveTempOpen ==
    SaveStep("save_temp_open", "save_temp_dump",
             [fs EXCEPT ![temp_log] = NotJson], fs, FALSE)

\* a dump of this poll's new messages only (not the program's)
SaveTempDumpNewOnly ==
    SaveStep("save_temp_dump", "save_replace",
             [fs EXCEPT ![temp_log] =
                 JsonDump([kind |-> "list", items |-> new_messages])],
             [fs EXCEPT ![temp_log] = NotJson], FALSE)

\* line 497: json.dump(self.message_data, f, indent=2)
SaveTempDump ==
    SaveStep("save_temp_dump", "save_replace",
             [fs EXCEPT ![temp_log] = JsonDump(message_data)],
             [fs EXCEPT ![temp_log] = NotJson], FALSE)

\* lines 500-501: os.replace(temp_log, self.master_log)
SaveReplace ==
    SaveStep("save_replace", "loop",
             [fs EXCEPT ![master_log] = fs[temp_log], ![temp_log] = Absent],
             fs, TRUE)

(***************************************************************************)
(* The environment                                                         *)
(***************************************************************************)
\* the process is interrupted (killed, Ctrl-C, power): its memory is gone,
\* the files stay as they are
Crash ==
    /\ pc # "down"
    /\ crashes < MaxCrashes
    /\ crashes' = crashes + 1
    /\ pc' = "down"
    /\ known_messages' = {}
    /\ message_data' = EmptyList
    /\ username_message_lookup' = EmptyLookup
    /\ new_messages' = <<>>
    /\ poll_result' = "none"
    /\ save_error' = FALSE
    /\ last_save' = "none"
    /\ skipped' = None
    /\ load_outcome' = "none"
    /\ loaded_file' = Absent
    /\ replaced' = FALSE
    /\ UNCHANGED <<fs, now, session_log, persist_called, pre_master,
                   persist_data, faults, idgen,
                   offline, mainloop>>

\* The clock is read for the names of the session log and of the backup
\* (lines 44 and 93, in the constructor) and for the date of a record,
\* which is the same all day: a tick is seen by the next constructor only.
Tick ==
    /\ pc = "down"
    /\ now < MaxNow
    /\ now' = now + 1
    /\ UNCHANGED <<fs, store, process, history, budget, idgen,
                   offline, mainloop>>

Next ==
    \/ Start
    \/ BeginPoll
    \/ PollRaises
    \/ \E raw \in RawMessages : Element(raw)
    \/ EndPoll
    \/ SaveSessionOpen
    \/ SaveSessionDump
    \/ SaveCopy
    \/ SaveTempOpen
    \/ SaveTempDump
    \/ SaveReplace
    \/ Crash
    \/ Tick

Spec == Init /\ [][Next]_vars

(***************************************************************************)
(* The identity generator on its own: two observed messages go through     *)
(* lines 281-291, id generation, the membership test and known_messages.add *)
(***************************************************************************)
TickerLabels ==
    { <<"S","P","Y">>,
      <<"E","S","1"," ","(","D",")">>,
      <<"V","I","X","(","D",")">>,
      <<"B","T"," ","(","U","S",")">> }

Payloads ==
    { <<"+","0",".","0","4">>, <<"+","0",".","0","5">>, <<"-","1">>,
      <<"3",".">> }

\* label, newline, numeric payload, '%'
Ticker(label, payload) == label \o <<NL>> \o payload \o <<"%">>

IdContents ==
    {Ticker(l, p) : l \in TickerLabels, p \in Payloads}
        \cup {<<"h","i">>, <<"5","0","%">>}

IdTimestamps == { <<"7",":","4","5">>, <<"7",":","4","5","_","m">> }

IdUsernames == { <<"a","s">>, <<"m","_","a","s">>, <<"m","a","s","1">> }

IdInputs ==
    {Raw(t, u, c) : t \in IdTimestamps, u \in IdUsernames, c \in IdContents}

Observed(raw) ==
    [norm |-> _remove_ticker_content(raw.content),
     id |-> _generate_message_id(raw.timestamp, raw.username, raw.content)]

MainDown ==
    /\ now = 0
    /\ pc = "down"
    /\ known_messages = {}
    /\ message_data = EmptyList
    /\ username_message_lookup = EmptyLookup
    /\ session_log = SessionPath(0)
    /\ new_messages = <<>>
    /\ poll_result = "none"
    /\ save_error = FALSE
    /\ last_save = "none"
    /\ skipped = None
    /\ load_outcome = "none"
    /\ loaded_file = Absent
    /\ replaced = FALSE
    /\ persist_called = FALSE
    /\ pre_master = Absent
    /\ persist_data = EmptyList
    /\ crashes = 0
    /\ faults = 0

MainOff ==
    /\ fs = [p \in Paths |-> Absent]
    /\ MainDown

InitId ==
    /\ MainOff
    /\ OfflineOff
    /\ MainLoopOff
    /\ in_a \in IdInputs
    /\ in_b \in IdInputs
    /\ out_a = NoOutput
    /\ out_b = NoOutput
    /\ id_known = {}
    /\ id_pc = "first"

\* the first message: its id is generated and added to the known ids
ObserveFirst ==
    /\ id_pc = "first"
    /\ out_a' = Observed(in_a)
    /\ id_known' = id_known \cup {out_a'.id}
    /\ id_pc' = "second"
    /\ UNCHANGED <<fs, now, store, process, history, budget, offline,
                   mainloop,
                   in_a, in_b, out_b>>

\* the second message: its id is generated and looked up
ObserveSecond ==
    /\ id_pc = "second"
    /\ out_b' = Observed(in_b)
    /\ id_known' = id_known \cup {out_b'.id}
    /\ id_pc' = IF out_b'.id \in id_known THEN "duplicate" ELSE "new"
    /\ UNCHANGED <<fs, now, store, process, history, budget, offline,
                   mainloop,
                   in_a, in_b, out_a>>

NextId == ObserveFirst \/ ObserveSecond

SpecId == InitId /\ [][NextId]_vars


(***************************************************************************)
(* Properties of the identity generator, checked under SpecId              *)
(***************************************************************************)
\* both messages have gone through lines 281-291
BothObserved == id_pc \in {"duplicate", "new"}

\* the separator of the id occurs in neither timestamp, or in neither
\* username
SeparatorFree ==
    \/ ~Has(in_a.timestamp, "_") /\ ~Has(in_b.timestamp, "_")
    \/ ~Has(in_a.username, "_") /\ ~Has(in_b.username, "_")

SameContentOtherSender ==
    /\ in_a.content = in_b.content
    /\ in_a.username # in_b.username \/ in_a.timestamp # in_b.timestamp

\* C3, as stated: two messages with identical content whose author or whose
\* timestamp label differs get different ids, and the same timestamp, author
\* and content always give the same id.
C3_DistinctIds ==
    BothObserved =>
        /\ SameContentOtherSender => out_a.id # out_b.id
        /\ in_a = in_b => out_a.id = out_b.id

\* C3, amended: the ids of two messages with identical content and a
\* different author or timestamp label differ when the separator "_" occurs
\* in neither timestamp label or in neither username; the same timestamp,
\* author and content always give the same id.
C3_DistinctIdsSeparatorFree ==
    BothObserved =>
        /\ (SameContentOtherSender /\ SeparatorFree) => out_a.id # out_b.id
        /\ in_a = in_b => out_a.id = out_b.id

\* C3: the same content from two authors, one of whose names holds the
\* separator, under one timestamp label without it: the ids differ
C3_Witness ==
    /\ BothObserved
    /\ SameContentOtherSender
    /\ in_a.timestamp = in_b.timestamp
    /\ ~Has(in_a.timestamp, "_")
    /\ Has(in_a.username, "_")
    /\ out_a.id # out_b.id

\* the two messages are ticker updates of one label by one author under one
\* timestamp label, with different numeric payloads
TickerPair(label) ==
    /\ in_a.timestamp = in_b.timestamp
    /\ in_a.username = in_b.username
    /\ \E p, q \in Payloads :
          /\ p # q
          /\ in_a.content = Ticker(label, p)
          /\ in_b.content = Ticker(label, q)

\* C4: two ticker updates of one label by one author under one timestamp
\* label that differ only in the numeric payload both normalise to the label
\* followed by "\n[PRICE]%", get the same id, and the second one is found in
\* the known ids and rejected as a duplicate.
C4_TickerUpdatesCollapse ==
    \A label \in TickerLabels :
        (BothObserved /\ TickerPair(label)) =>
            /\ out_a.norm = label \o <<NL>> \o PRICE
            /\ out_b.norm = label \o <<NL>> \o PRICE
            /\ out_a.id = out_b.id
            /\ id_pc = "duplicate"

\* C4: a futures ticker with a delay qualifier has been updated
C4_Witness ==
    /\ BothObserved
    /\ TickerPair(<<"E","S","1"," ","(","D",")">>)
    /\ id_pc = "duplicate"

(***************************************************************************)
(* Properties of the store and of the log directory, checked under Spec    *)
(***************************************************************************)
\* the records of message_data that carry the id
RecordsWithId(id) ==
    {i \in 1..Len(message_data.items) :
        /\ message_data.items[i].kind = "dict"
        /\ "msg_id" \in DOMAIN message_data.items[i]
        /\ message_data.items[i].msg_id = id}

\* C1, as stated: a message that is observed again, in this process or after
\* a restart that loaded the log, has exactly one record in the in-memory
\* log: here, the message line 283 has just skipped as known.
C1_ExactlyOneRecord ==
    skipped # None => Cardinality(RecordsWithId(skipped)) = 1

\* C2, as stated: after the load of any persisted log and any number of
\* ingestion cycles no two records of the in-memory log share a msg_id.
C2_UniqueIds ==
    pc # "down" =>
        \A i, j \in 1..Len(message_data.items) :
            (i # j /\ HasMsgId(message_data.items[i])
                   /\ HasMsgId(message_data.items[j])
                   /\ message_data.items[i].kind = "dict"
                   /\ message_data.items[j].kind = "dict")
                => message_data.items[i].msg_id # message_data.items[j].msg_id

\* p is a prefix of q
IsPrefix(p, q) == Len(p) <= Len(q) /\ SubSeq(q, 1, Len(p)) = p

\* C5: within one process the in-memory log only grows at its end: every
\* step of a running process leaves the records it holds, with every field
\* of them, where they are.
C5_AppendOnly ==
    [][(pc # "down" /\ pc' # "down") =>
          /\ message_data'.kind = message_data.kind
          /\ IsPrefix(message_data.items, message_data'.items)]_vars

\* C5: a reply was recorded with the id of the ticker as its reply target,
\* a later message of the same author that matches the preview better was
\* appended after it, and the recorded reply still names the ticker
C5_Witness ==
    /\ message_data.kind = "list"
    /\ \E i, j \in 1..Len(message_data.items) :
          /\ i < j
          /\ "reply_msg_id" \in DOMAIN message_data.items[i]
          /\ message_data.items[i].reply_msg_id = RecTick.msg_id
          /\ message_data.items[j].username = al
          /\ message_data.items[j].content = SPY2

\* C6: once persist has been called, the master log holds either the
\* document it held at the call or the whole in-memory log of the call, at
\* every point of the call and after an interruption at any of them.
C6_MasterAtomic ==
    persist_called => fs[master_log] \in {pre_master, JsonDump(persist_data)}

\* C6: the process was interrupted while the temporary file was half
\* written, and the master log still holds the earlier document
C6_Witness ==
    /\ pc = "down"
    /\ crashes > 0
    /\ persist_called
    /\ fs[temp_log] = NotJson
    /\ fs[master_log] = pre_master
    /\ fs[master_log] # JsonDump(persist_data)

\* the call of _save_to_master_log for the last appended message has failed
PersistFailed == last_save = "failed"

\* C7, as stated: a failure during persist is surfaced to the caller, so
\* the cycle that saw it does not end as a normal return, and the master log
\* of before the call is intact.
C7_FailureSurfaced ==
    /\ PersistFailed => fs[master_log] = pre_master
    /\ (pc = "idle" /\ save_error) => poll_result = "raised"

\* C7, amended: a failure during persist is caught and printed inside
\* _save_to_master_log and is not surfaced: the message stays in the
\* in-memory log and is reported as new, the cycle returns normally, and the
\* master log of before the call is intact.
C7_FailureSwallowed ==
    /\ PersistFailed =>
          /\ fs[master_log] = pre_master
          /\ new_messages # <<>>
          /\ message_data.items # <<>>
          /\ new_messages[Len(new_messages)]
                 = message_data.items[Len(message_data.items)]
    /\ (pc = "idle" /\ save_error) => poll_result = "ok"

\* C7: a cycle in which a persist failed has returned its new messages
C7_Witness ==
    /\ pc = "idle"
    /\ save_error
    /\ poll_result = "ok"
    /\ new_messages # <<>>
    /\ fs[master_log] = pre_master

\* the constructor has just ended, or raised, on a master log that exists
\* and does not load
LoadJustFailed ==
    /\ load_outcome \in {"failed", "aborted"}
    /\ poll_result = "none"

\* C8, as stated: when loading fails the process does not abort, a backup of
\* the file exists, and message_data, known_messages and
\* username_message_lookup are all empty.
C8_FreshStoreOnFailure ==
    LoadJustFailed =>
        /\ pc = "idle"
        /\ \E t \in Stamps : fs[BackupPath(t)] = loaded_file
        /\ message_data = EmptyList
        /\ known_messages = {}
        /\ username_message_lookup = EmptyLookup

\* a document that parses and is not a list of record objects
NotRecordList(f) ==
    \/ f.kind = "object"
    \/ /\ f.kind = "list"
       /\ \E i \in 1..Len(f.items) : f.items[i].kind # "dict"

\* C9, as stated: a master log that parses as JSON without being a list of
\* records is rejected through the recovery path, which leaves an empty list
\* for later cycles to append to.
C9_ShapeRejected ==
    (pc # "down" /\ NotRecordList(loaded_file)) =>
        /\ load_outcome = "failed"
        /\ message_data.kind = "list"

\* some backup holds the file the constructor found
BackupOfLoaded == \E t \in Stamps : fs[BackupPath(t)] = loaded_file

ReplyAuthors == {<<>>, al, bo}
ReplyPreviews == {<<>>, <<"s","p">>, <<" ","S","P"," ">>, <<"o","k">>, <<"z">>}

\* the positions of a history whose trimmed, lower-cased content contains
\* the trimmed, lower-cased preview
ReferenceMatches(user_history, preview) ==
    {k \in 1..Len(user_history) :
        Contains(Lower(Strip(preview)), Lower(Strip(user_history[k].content)))}

\* the greatest element of a non-empty set of positions
Newest(positions) == CHOOSE k \in positions : \A j \in positions : j <= k

\* the reference resolver on the history of one author
ReferenceAmong(user_history, preview) ==
    IF preview # <<>> /\ ReferenceMatches(user_history, preview) # {}
    THEN user_history[Newest(ReferenceMatches(user_history, preview))].msg_id
    ELSE user_history[Len(user_history)].msg_id

\* the reference resolver: absent without a target author or a history
ReferenceResolver(lookup, author, preview) ==
    IF author = <<>> \/ author \notin DOMAIN lookup
    THEN None
    ELSE IF lookup[author] = <<>>
    THEN None
    ELSE ReferenceAmong(lookup[author], preview)

\* C11, as stated: for every target author, preview and store state,
\* whenever _find_reply_msg_id returns, it returns what the reference
\* resolver gives: absent without an author or a history, else the id of the
\* newest record of the author whose content contains the preview, else the
\* id of the author's newest record.
C11_ResolverIsReference ==
    pc \in {"idle", "loop"} =>
        \A author \in ReplyAuthors, preview \in ReplyPreviews :
            \/ _find_reply_msg_id(username_message_lookup, author,
                                  preview).raised
            \/ _find_reply_msg_id(username_message_lookup, author,
                                  preview).value
                   = ReferenceResolver(username_message_lookup, author,
                                       preview)


\* C12, as stated: no record of the in-memory log names itself as its reply
\* target, also when a user replies to their own earlier message.
C12_NoSelfReply ==
    \A i \in 1..Len(message_data.items) :
        (/\ message_data.items[i].kind = "dict"
         /\ "reply_msg_id" \in DOMAIN message_data.items[i]
         /\ "msg_id" \in DOMAIN message_data.items[i])
            => message_data.items[i].reply_msg_id
                   # message_data.items[i].msg_id


(***************************************************************************)
(* The per-author history and the membership set                           *)
(***************************************************************************)
\* the authors of the elements and of the logs
Authors == {al, bo}

\* the records of a list that carry the author, in the order of the list
RecordsOf(items, author) ==
    LET ByAuthor(rec) ==
            /\ rec.kind = "dict"
            /\ "username" \in DOMAIN rec
            /\ rec.username = author
    IN  SelectSeq(items, ByAuthor)

\* the history of an author, empty for an author never seen
HistoryFor(author) ==
    IF author \in DOMAIN username_message_lookup
    THEN username_message_lookup[author]
    ELSE <<>>

\* C13, as stated: after any load and ingestion steps the history of every
\* author is the sub-sequence of the in-memory log with the records of that
\* author, in log order, and empty for an unseen author; and right after a
\* successful load every loaded record is in the membership set and in the
\* history of its author.
C13_HistoryIsSubsequence ==
    pc # "down" =>
        /\ \A author \in Authors :
              HistoryFor(author) = RecordsOf(message_data.items, author)
        /\ (load_outcome = "ok" /\ poll_result = "none") =>
              \A i \in 1..Len(loaded_file.items) :
                  loaded_file.items[i].kind = "dict" =>
                      /\ "msg_id" \in DOMAIN loaded_file.items[i]
                      /\ loaded_file.items[i].msg_id \in known_messages
                      /\ \E k \in 1..Len(HistoryFor(
                                          loaded_file.items[i].username)) :
                            HistoryFor(loaded_file.items[i].username)[k]
                                = loaded_file.items[i]


\* the ids of the records of the in-memory log
RecordIds ==
    {message_data.items[i].msg_id :
        i \in {k \in 1..Len(message_data.items) :
                  /\ message_data.items[k].kind = "dict"
                  /\ "msg_id" \in DOMAIN message_data.items[k]}}

\* C14, as stated: between the processing of two elements of a batch the
\* membership set is the set of ids of the appended records, also when the
\* processing of an element has failed part-way: no message is marked as
\* seen without having been recorded.  (Stated for a process whose load did
\* not fail.)
C14_KnownIsRecorded ==
    (pc = "loop" /\ load_outcome # "failed") => known_messages = RecordIds


\* a step of the batch loop that finds the id of its element in the
\* membership set (line 283)
SkipStep ==
    pc = "loop" /\ skipped' # None

\* C15: an element whose id is already in the membership set is skipped with
\* no side effects: the in-memory log, the membership set, the per-author
\* histories and the files are unchanged and no persist is performed.
C15_SkipHasNoEffect ==
    [][SkipStep =>
          /\ skipped' \in known_messages
          /\ UNCHANGED <<message_data, known_messages,
                         username_message_lookup, fs, session_log,
                         new_messages, persist_called, last_save>>
          /\ pc' = "loop"]_vars

\* an id was skipped while its record is in the log and on disk
C15_Witness ==
    /\ skipped # None
    /\ pc = "loop"
    /\ persist_called
    /\ \E i \in 1..Len(message_data.items) :
          /\ message_data.items[i].kind = "dict"
          /\ "msg_id" \in DOMAIN message_data.items[i]
          /\ message_data.items[i].msg_id = skipped


\* C16: a persist is performed for every accepted message before the next
\* element is processed, and whenever a persist has completed without
\* failure the master log is the whole in-memory log, in order: it holds
\* every record accepted so far, those whose own persist failed included.
C16_PersistWritesWholeLog ==
    /\ last_save = "ok" => fs[master_log] = JsonDump(message_data)
    /\ (pc = "loop" /\ new_messages # <<>> /\ message_data.kind = "list")
           => last_save \in {"ok", "failed"}

\* a persist has completed after the persist of an earlier record failed
C16_Witness ==
    /\ last_save = "ok"
    /\ save_error
    /\ pc = "loop"
    /\ Len(new_messages) >= 2
    /\ fs[master_log] = JsonDump(message_data)


(***************************************************************************)
(* The normaliser on its own: test_ticker_content_removal, lines 611-630,  *)
(* over more contents, and the normaliser applied to its own result        *)
(***************************************************************************)
\* the originals of test_cases, lines 617-623
TestOriginals ==
    { <<"E","S","1"," ","(","D",")","\n","+","0",".","0","4","%">>,
      <<"E","S","1"," ","(","D",")","\n","+","0",".","0","5","%">>,
      <<"E","S","1"," ","(","D",")","\n","-","0",".","1","2","%">>,
      <<"V","I","X"," ","(","D",")","\n","+","5",".","2","3","%">>,
      <<"S","P","Y","\n","+","1",".","4","5","%">>,
      <<"H","e","l","l","o"," ","w","o","r","l","d">>,
      <<"E","S","1"," ","(","D",")","\n","+","0",".","0","4","%","\n",
        "S","o","m","e"," ","a","d","d","i","t","i","o","n","a","l"," ",
        "t","e","x","t">> }

\* text in front of a ticker
Leads ==
    { <<>>,
      <<"g","o"," ">> }

\* labels the first three patterns do not take: lower case, digits without
\* a qualifier, none, and a qualifier that holds a ticker of its own
OtherLabels ==
    { <<"s","p","y">>,
      <<"E","S","1">>,
      <<>>,
      <<"X"," ","(","S","P","Y","\n","1","%",")">> }

\* payloads that are no price: no digit, two points
OtherPayloads ==
    { <<"+">>,
      <<"1",".","2",".","3">> }

\* the end of the price, a '%' or none
PercentSigns ==
    { <<"%">>,
      <<>> }

\* text after a ticker: none, a line, a second ticker
Trails ==
    { <<>>,
      <<"\n","o","k">>,
      <<"\n","Q","Q","Q","\n","-","2","%">> }


\* lead, label, newline, payload, '%' or none, trail
TickerContents ==
    {lead \o label \o <<NL>> \o payload \o percent \o trail :
        lead \in Leads, label \in TickerLabels \cup OtherLabels,
        payload \in Payloads \cup OtherPayloads, percent \in PercentSigns,
        trail \in Trails}
        \cup TestOriginals

TestTimestamp == <<"7",":","4","5"," ","P","M">>
TestUsername == <<"m","a","s","1">>

InitTicker ==
    /\ MainOff
    /\ OfflineOff
    /\ MainLoopOff
    /\ \E original \in TickerContents :
          in_a = Raw(TestTimestamp, TestUsername, original)
    /\ in_b = NoInput
    /\ out_a = NoOutput
    /\ out_b = NoOutput
    /\ id_known = {}
    /\ id_pc = "original"

\* line 627: result = scraper._remove_ticker_content(original)
RemoveOnce ==
    /\ id_pc = "original"
    /\ out_a' = Observed(in_a)
    /\ in_b' = Raw(TestTimestamp, TestUsername, out_a'.norm)
    /\ id_pc' = "result"
    /\ UNCHANGED <<fs, now, store, process, history, budget, offline,
                   mainloop,
                   in_a, out_b,
                   id_known>>

\* the normaliser on its own result, as on a stored content
RemoveAgain ==
    /\ id_pc = "result"
    /\ out_b' = Observed(in_b)
    /\ id_pc' = "again"
    /\ UNCHANGED <<fs, now, store, process, history, budget, offline,
                   mainloop,
                   in_a, in_b,
                   out_a, id_known>>

NextTicker == RemoveOnce \/ RemoveAgain

SpecTicker == InitTicker /\ [][NextTicker]_vars


(***************************************************************************)
(* Properties of the normaliser, checked under SpecTicker                  *)
(***************************************************************************)
\* optional sign, digits, optional decimals
IsNumericRun(run) ==
    LET body == IF run # <<>> /\ run[1] \in {"+", "-"} THEN Tail(run) ELSE run
    IN  /\ body # <<>>
        /\ body[1] \in Digit
        /\ \A k \in 1..Len(body) : body[k] \in Digit \cup {"."}
        /\ Cardinality({k \in 1..Len(body) : body[k] = "."}) <= 1

\* a label ends just before index n: capital letters, or capitals and digits,
\* optional blanks and a parenthesised qualifier
LabelBefore(s, n) ==
    /\ n > 1
    /\ \/ s[n - 1] \in Upper
       \/ /\ s[n - 1] = ")"
          /\ \E o \in 1..(n - 3) :
                /\ s[o] = "("
                /\ \A k \in (o + 1)..(n - 2) : s[k] # ")"
                /\ \E b \in 1..(o - 1) :
                      /\ s[b] \in UpperDigit
                      /\ \A k \in (b + 1)..(o - 1) : s[k] \in Space

\* label, newline, optional sign, digits, optional decimals, percent
HasOccurrence(s) ==
    \E n \in 1..Len(s) :
        /\ s[n] = NL
        /\ LabelBefore(s, n)
        /\ \E e \in (n + 2)..Len(s) :
              s[e] = "%" /\ IsNumericRun(SubSeq(s, n + 1, e - 1))

RECURSIVE OnlyPricesChanged(_, _, _, _)
\* r from j on is c from i on, but for numeric runs between a newline and a
\* '%' that have become "[PRICE]"
OnlyPricesChanged(c, i, r, j) ==
    IF i > Len(c)
    THEN j > Len(r)
    ELSE \/ /\ j <= Len(r)
            /\ c[i] = r[j]
            /\ OnlyPricesChanged(c, i + 1, r, j + 1)
         \/ /\ i > 1
            /\ c[i - 1] = NL
            /\ j + 7 <= Len(r)
            /\ SubSeq(r, j, j + 7) = PRICE
            /\ \E e \in (i + 1)..Len(c) :
                  /\ c[e] = "%"
                  /\ IsNumericRun(SubSeq(c, i, e - 1))
                  /\ OnlyPricesChanged(c, e + 1, r, j + 8)

Removed == id_pc \in {"result", "again"}

\* C17: _remove_ticker_content returns its input when the content has no
\* newline, no '%' or no occurrence of label, newline, optional sign,
\* digits, optional decimals, '%'; when it replaces, only the numeric run
\* between the newline and the '%' of an occurrence changes, to "[PRICE]",
\* every occurrence is replaced and all other characters, the label
\* included, stay in place.
C17_OnlyPricesReplaced ==
    Removed =>
        /\ (\/ ~Has(in_a.content, NL)
            \/ ~Has(in_a.content, "%")
            \/ ~HasOccurrence(in_a.content)) => out_a.norm = in_a.content
        /\ HasOccurrence(in_a.content) => out_a.norm # in_a.content
        /\ OnlyPricesChanged(in_a.content, 1, out_a.norm, 1)
        /\ ~HasOccurrence(out_a.norm)

\* text, a ticker, a second ticker: both prices are replaced, the rest stays
C17_Witness ==
    /\ Removed
    /\ in_a.content =
           <<"g","o"," ">> \o Ticker(<<"E","S","1"," ","(","D",")">>,
                                     <<"+","0",".","0","4">>)
               \o <<NL>> \o Ticker(<<"Q","Q","Q">>, <<"-","2">>)
    /\ out_a.norm =
           <<"g","o"," ","E","S","1"," ","(","D",")",NL>> \o PRICE
               \o <<NL,"Q","Q","Q",NL>> \o PRICE

\* C18: the normaliser is idempotent: applied to its own result, it returns
\* that result.
C18_Idempotent ==
    id_pc = "again" => out_b.norm = out_a.norm

\* the second application has met a content that the first one changed
C18_Witness ==
    /\ id_pc = "again"
    /\ out_a.norm # in_a.content
    /\ out_b.norm = out_a.norm
    /\ Has(in_a.content, "(")


(***************************************************************************)
(* chat_logs/delete_duplicates.py: the offline pass over a master log      *)
(***************************************************************************)
\* normalize_message_content, lines 9-25: the first two patterns only
normalize_message_content(content) ==
    IF Has(content, NL) /\ Has(content, "%")
    THEN ReSub(pattern_with_delay, ReSub(pattern, content, 1), 1)
    ELSE content

\* the prefix length of the offline identifier
NormPrefixLen == 20

\* s[:n]
Prefix(s, n) == IF Len(s) > n THEN SubSeq(s, 1, n) ELSE s

Underscores(s) == {i \in 1..Len(s) : s[i] = "_"}

MinOf(S) == CHOOSE x \in S : \A y \in S : x <= y

\* the index of the second '_' of s, where msg_id.split('_', 2) cuts last
SecondUnderscore(s) == MinOf(Underscores(s) \ {MinOf(Underscores(s))})

\* normalize_message_id, lines 27-45
normalize_message_id(msg_id, content) ==
    IF Cardinality(Underscores(msg_id)) < 2
    THEN msg_id
    ELSE SubSeq(msg_id, 1, SecondUnderscore(msg_id))
             \o Prefix(normalize_message_content(content), NormPrefixLen)

\* norm_id of a record that has an id, lines 88-92
NormIdOf(msg) ==
    normalize_message_id(msg.msg_id, Get(msg, "content", <<>>))

\* '\n' in content raises on None, unless line 35 has returned before
NormIdRaises(msg) ==
    /\ Cardinality(Underscores(msg.msg_id)) >= 2
    /\ Get(msg, "content", <<>>) = None

\* "msg_id" not in msg or not msg["msg_id"], line 81
HasNoId(msg) == "msg_id" \notin DOMAIN msg \/ ~Truthy(msg.msg_id)

m_as == <<"m","_","a","s">>
m_bs == <<"m","_","b","s">>
hi == <<"h","i">>
Long1 == <<"a","a","a","a","a","a","a","a","a","a",
           "a","a","a","a","a","a","a","a","a","a","x">>
Long2 == <<"a","a","a","a","a","a","a","a","a","a",
           "a","a","a","a","a","a","a","a","a","a","y">>

\* a futures ticker at two prices
ES1a == Ticker(<<"E","S","1"," ","(","D",")">>, <<"+","0",".","0","4">>)
ES1b == Ticker(<<"E","S","1"," ","(","D",")">>, <<"+","0",".","0","5">>)

\* a record as a version without price placeholders wrote it
OldRecord(t, u, c) == MessageDict(Raw(t, u, c), FormatId(t, u, c), None, 0)

\* a record as get_chat_messages writes it
LiveRecord(t, u, c) ==
    MessageDict(Raw(t, u, c), _generate_message_id(t, u, c), None, 0)

OfflineRecords ==
    {OldRecord(T1, al, SPY1), OldRecord(T1, al, SPY2),
     OldRecord(T2, al, SPY1), OldRecord(T1, bo, SPY1),
     LiveRecord(T1, m_as, hi), LiveRecord(T1, m_bs, hi),
     LiveRecord(T2, bo, Long1), LiveRecord(T2, bo, Long2),
     LiveRecord(T1, al, ES1a), LiveRecord(T1, al, ES1b),
     LogNoId.items[1], LogNullContent.items[1]}

\* the longest log the offline pass is given
MaxLogLen == 3

OfflineLogs ==
    {Absent, NotJson}
        \cup {ListFile(items) :
                 items \in UNION {[1..n -> OfflineRecords] : n \in 0..MaxLogLen}}

InitOffline ==
    /\ \E log \in OfflineLogs :
          fs = [p \in Paths |-> IF p = master_log THEN log ELSE Absent]
    /\ MainDown
    /\ IdGenOff
    /\ MainLoopOff
    /\ off_pc = "start"
    /\ data = <<>>
    /\ scanned = 0
    /\ seen_norm_ids = {}
    /\ unique_messages = <<>>
    /\ duplicates = <<>>
    /\ report = <<>>

\* lines 52-78: no file, return False; the backup; json.load, which may
\* raise; the empty collections
BackupAndRead ==
    /\ off_pc = "start"
    /\ IF ~Exists(fs[master_log])
       THEN /\ off_pc' = "failed"
            /\ UNCHANGED <<fs, data>>
       ELSE /\ fs' = [fs EXCEPT ![BackupPath(now)] = fs[master_log]]
            /\ IF LoadRaises(fs[master_log])
               THEN off_pc' = "failed" /\ UNCHANGED data
               ELSE off_pc' = "scan" /\ data' = fs[master_log].items
    /\ UNCHANGED <<now, store, process, history, budget, idgen, mainloop,
                   scanned,
                   seen_norm_ids, unique_messages, duplicates, report>>

\* lines 94-99 for the record msg and its norm_id
KeepFirst(msg, norm_id) ==
    IF norm_id \notin seen_norm_ids
    THEN /\ seen_norm_ids' = seen_norm_ids \cup {norm_id}
         /\ unique_messages' = Append(unique_messages, msg)
         /\ UNCHANGED duplicates
    ELSE /\ duplicates' = Append(duplicates, msg)
         /\ UNCHANGED <<seen_norm_ids, unique_messages>>

\* lines 80-99 for msg, the next element of data
ScanBody(msg) ==
    IF HasNoId(msg)
    THEN /\ unique_messages' = Append(unique_messages, msg)
         /\ scanned' = scanned + 1
         /\ UNCHANGED <<off_pc, seen_norm_ids, duplicates>>
    ELSE IF NormIdRaises(msg)
    THEN /\ off_pc' = "failed"
         /\ UNCHANGED <<scanned, seen_norm_ids, unique_messages, duplicates>>
    ELSE /\ KeepFirst(msg, NormIdOf(msg))
         /\ scanned' = scanned + 1
         /\ UNCHANGED off_pc

ScanMessage ==
    /\ off_pc = "scan"
    /\ scanned < Len(data)
    /\ ScanBody(data[scanned + 1])
    /\ UNCHANGED <<fs, now, store, process, history, budget, idgen, mainloop,
                   data,
                   report>>

\* lines 101-124: the file is rewritten, the counts are printed, and the
\* success rate divides by original_count
RewriteAndReport ==
    /\ off_pc = "scan"
    /\ scanned = Len(data)
    /\ fs' = [fs EXCEPT ![master_log] = ListFile(unique_messages)]
    /\ report' = <<Len(data), Len(unique_messages),
                   Len(data) - Len(unique_messages)>>
    /\ off_pc' = IF Len(data) = 0 THEN "failed" ELSE "done"
    /\ UNCHANGED <<now, store, process, history, budget, idgen, mainloop,
                   data, scanned,
                   seen_norm_ids, unique_messages, duplicates>>

NextOffline == BackupAndRead \/ ScanMessage \/ RewriteAndReport

SpecOffline == InitOffline /\ [][NextOffline]_vars


(***************************************************************************)
(* Properties of the offline pass, checked under SpecOffline               *)
(***************************************************************************)
\* "Duplicates removed", line 111
duplicates_removed == report[3]

\* same timestamp, same author, same first 20 characters of the normalised
\* content
SameIdentity(m1, m2) ==
    /\ m1.timestamp = m2.timestamp
    /\ m1.username = m2.username
    /\ Prefix(normalize_message_content(m1.content), NormPrefixLen)
           = Prefix(normalize_message_content(m2.content), NormPrefixLen)

RECURSIVE IsSubsequence(_, _)
\* the elements of sub occur in seq, in that order
IsSubsequence(sub, seq) ==
    IF sub = <<>> THEN TRUE
    ELSE IF seq = <<>> THEN FALSE
    ELSE IF Head(sub) = Head(seq)
         THEN IsSubsequence(Tail(sub), Tail(seq))
         ELSE IsSubsequence(sub, Tail(seq))

\* C19: the offline pass takes the records in their order and removes a
\* record only if an earlier kept record has the same recomputed
\* identifier, that is the same timestamp, the same author and the same
\* first 20 characters of normalised content: records that differ in
\* timestamp or in author are never duplicates of each other; the kept
\* records stay in their order.
C19_RemovedHasEarlierTwin ==
    off_pc \in {"scan", "done"} =>
        /\ \A d \in 1..Len(duplicates) :
              \E k \in 1..Len(unique_messages) :
                  SameIdentity(unique_messages[k], duplicates[d])
        /\ IsSubsequence(unique_messages, SubSeq(data, 1, scanned))

\* how often the record m occurs in seq
Count(seq, m) == Cardinality({i \in 1..Len(seq) : seq[i] = m})

\* the pairs of records of the log with the same timestamp, author and
\* first 20 characters of normalised content
Redundant(log) ==
    {pair \in (1..Len(log)) \X (1..Len(log)) :
        /\ pair[1] < pair[2]
        /\ log[pair[1]].content # None
        /\ log[pair[2]].content # None
        /\ SameIdentity(log[pair[1]], log[pair[2]])}

\* the only redundancy of the log is one exact duplicate
OneExactDuplicate(log) ==
    /\ Cardinality(Redundant(log)) = 1
    /\ \A pair \in Redundant(log) :
          /\ log[pair[1]].timestamp = log[pair[2]].timestamp
          /\ log[pair[1]].username = log[pair[2]].username
          /\ log[pair[1]].content = log[pair[2]].content

\* C20: the offline pass partitions the records of the log into kept and
\* removed, the removal count it reports is the number of removed records,
\* and on a log whose only redundancy is one exact duplicate exactly one
\* record is removed and the count is 1.
C20_PartitionAndCount ==
    off_pc = "done" =>
        /\ \A i \in 1..Len(data) :
              Count(unique_messages, data[i]) + Count(duplicates, data[i])
                  = Count(data, data[i])
        /\ Len(unique_messages) + Len(duplicates) = Len(data)
        /\ fs[master_log] = ListFile(unique_messages)
        /\ duplicates_removed = Len(duplicates)
        /\ OneExactDuplicate(data) =>
              Len(duplicates) = 1 /\ duplicates_removed = 1


\* the records of the log that the loop has given an identifier
Identified ==
    {i \in 1..scanned : ~HasNoId(data[i]) /\ data[i].content # None}

\* the id the live generator gives to the record's timestamp, author and
\* content
LiveId(msg) == _generate_message_id(msg.timestamp, msg.username, msg.content)

\* C21: the offline normaliser returns what the live normaliser returns for
\* every content, so two records to which the live generator gives the
\* same id are duplicates of each other for the offline pass.
C21_OfflineMimicsLive ==
    off_pc \in {"scan", "done"} =>
        /\ \A i \in Identified :
              normalize_message_content(data[i].content)
                  = _remove_ticker_content(data[i].content)
        /\ \A i, j \in Identified :
              LiveId(data[i]) = LiveId(data[j])
                  => NormIdOf(data[i]) = NormIdOf(data[j])


\* a record of the in-memory log has the id and the author
StoredBy(id, author) ==
    \E i \in 1..Len(message_data.items) :
        /\ message_data.items[i].kind = "dict"
        /\ "msg_id" \in DOMAIN message_data.items[i]
        /\ message_data.items[i].msg_id = id
        /\ "username" \in DOMAIN message_data.items[i]
        /\ message_data.items[i].username = author

\* what the resolver returns does not dangle
ResolvedIsStored(author, resolved) ==
    (~resolved.raised /\ resolved.value # None)
        => StoredBy(resolved.value, author)

\* C22: an id that _find_reply_msg_id returns is the stored msg_id of a
\* record of message_data by the replied-to author, and so is the
\* reply_msg_id of every record accepted by this process: no reply id
\* dangles, for accepted records and for records loaded from a log.
C22_ReplyIdIsStored ==
    pc \in {"idle", "loop"} =>
        /\ \A author \in ReplyAuthors, preview \in ReplyPreviews :
              ResolvedIsStored(author,
                  _find_reply_msg_id(username_message_lookup, author,
                                     preview))
        /\ \A i \in 1..Len(new_messages) :
              (new_messages[i].isReply /\ new_messages[i].reply_msg_id # None)
                  => StoredBy(new_messages[i].reply_msg_id,
                              new_messages[i].replied_to)


(***************************************************************************)
(* main: the monitoring loop, lines 557-597.  A poll is one step; the      *)
(* master log of a directory stands for the directory.                     *)
(***************************************************************************)
max_consecutive_errors == 5

\* the messages the page may show to a poll
MainMessages == {RawTick1, Raw(T2, bo, spot)}

\* the ids of the records of a master log
IdsOf(f) ==
    {f.items[i].msg_id :
        i \in {k \in 1..Len(f.items) : "msg_id" \in DOMAIN f.items[k]}}

\* line 557 is reached: the scraper of line 542 has loaded the log of
\* LOG_DIRECTORY, which was absent, and the first get_chat_messages found
\* nothing
InitMain ==
    /\ fs = [p \in Paths |-> Absent]
    /\ MainDown
    /\ IdGenOff
    /\ OfflineOff
    /\ LOG_DIRECTORY \in Directories
    /\ log_directory = LOG_DIRECTORY
    /\ disk = [d \in Directories |-> Absent]
    /\ consecutive_errors = 0
    /\ streak = 0
    /\ restarted = FALSE
    /\ restart_streak = 0
    /\ persisted_before = {}

\* lines 282-323 for the one new element of the poll, then lines 565-578:
\* new_messages is not empty and the counter is reset
PollAccepts(raw, msg_id) ==
    /\ msg_id \notin known_messages
    /\ known_messages' = known_messages \cup {msg_id}
    /\ message_data' =
           AppendRecord(message_data, MessageDict(raw, msg_id, None, Today))
    /\ username_message_lookup' =
           LookupAppend(username_message_lookup, raw.username,
                        MessageDict(raw, msg_id, None, Today))
    /\ disk' = [disk EXCEPT ![log_directory] = JsonDump(message_data')]
    /\ new_messages' = <<MessageDict(raw, msg_id, None, Today)>>
    /\ consecutive_errors' = 0
    /\ streak' = 0
    /\ UNCHANGED <<fs, now, pc, session_log, poll_result, save_error,
                   last_save, skipped, history, budget, idgen, offline,
                   LOG_DIRECTORY, log_directory, restarted, restart_streak,
                   persisted_before>>

\* lines 579-582: the else branch leaves the counter as it is
QuietPoll == consecutive_errors

\* get_new_messages returns a new message
PollFindsNew ==
    \E raw \in MainMessages :
        PollAccepts(raw, _generate_message_id(raw.timestamp, raw.username,
                                              raw.content))

\* get_new_messages returns an empty list: the page shows nothing new
PollFindsNothing ==
    /\ new_messages' = <<>>
    /\ consecutive_errors' = QuietPoll
    /\ streak' = 0
    /\ UNCHANGED <<fs, now, store, pc, session_log, poll_result, save_error,
                   last_save, skipped, history, budget, idgen, offline,
                   LOG_DIRECTORY, log_directory, disk, restarted,
                   restart_streak, persisted_before>>

\* line 592: ChatScraper(GODEL_URL, GODEL_USERNAME, GODEL_PASSWORD), the
\* log directory is the default of line 16
RestartDirectory == DefaultDirectory

\* lines 588-595: the scraper is closed and a new one is constructed; its
\* _load_master_log reads the master log of its directory, here absent or
\* a dump of _save_to_master_log
Restart(f) ==
    /\ log_directory' = RestartDirectory
    /\ known_messages' = IF Exists(f) THEN LoadTry(f).known ELSE {}
    /\ username_message_lookup' =
           IF Exists(f) THEN LoadTry(f).lookup ELSE EmptyLookup
    /\ message_data' = IF Exists(f) THEN JsonLoad(f) ELSE EmptyList
    /\ consecutive_errors' = 0
    /\ streak' = 0
    /\ restarted' = TRUE
    /\ restart_streak' = streak + 1
    /\ persisted_before' = IdsOf(disk[log_directory])

\* lines 584-595: get_new_messages raises
PollFails ==
    /\ new_messages' = <<>>
    /\ IF consecutive_errors + 1 >= max_consecutive_errors
       THEN Restart(disk[RestartDirectory])
       ELSE /\ consecutive_errors' = consecutive_errors + 1
            /\ streak' = streak + 1
            /\ UNCHANGED <<store, log_directory, restarted, restart_streak,
                           persisted_before>>
    /\ UNCHANGED <<fs, now, pc, session_log, poll_result, save_error,
                   last_save, skipped, history, budget, idgen, offline,
                   LOG_DIRECTORY, disk>>

NextMain == PollFindsNew \/ PollFindsNothing \/ PollFails

SpecMain == InitMain /\ [][NextMain]_vars

(***************************************************************************)
(* Properties of the monitoring loop, checked under SpecMain               *)
(***************************************************************************)
\* C23: the counter of main counts consecutive failures only: a poll that
\* does not raise resets it to 0, with or without new messages, so the
\* browser is restarted only after 5 polls in a row have raised.
C23_CountsConsecutive ==
    /\ consecutive_errors = streak
    /\ restarted => restart_streak = max_consecutive_errors

\* how many records of the master logs carry the id
TimesRecorded(id) ==
    Cardinality({pos \in Directories \X (1..2) :
                    /\ pos[2] <= Len(disk[pos[1]].items)
                    /\ disk[pos[1]].items[pos[2]].msg_id = id})

\* C24: the scraper that replaces another one loads the master log the
\* replaced one persisted to: every id accepted and persisted before the
\* restart is in known_messages afterwards and is not recorded again.
C24_RestartKeepsKnown ==
    restarted =>
        /\ persisted_before \subseteq known_messages
        /\ \A id \in persisted_before : TimesRecorded(id) = 1

=============================================================================
